---- MODULE Spec2Model ----
(***************************************************************************)
(* Model of the PDF ingestion pipeline.                                    *)
(*                                                                         *)
(* chunk_text in backend/test_pdf_upload_fixed.py (and its copy in         *)
(* backend/test_pdf_upload.py).  A text is a sequence of one-character     *)
(* strings; a word is a non-empty sequence of non-whitespace characters.   *)
(* A second activation record (the variables ending in 2) holds a second   *)
(* call: of the same function for the two-call specification, of the copy  *)
(* in test_pdf_upload.py for the two-copies specification.                 *)
(*                                                                         *)
(* upload_pdf in backend/api_server.py: one request, from its checks to    *)
(* its response, with the temporary file it creates.                       *)
(*                                                                         *)
(* process_user_pdf in backend/test_pdf_upload_fixed.py: one call, with    *)
(* the batch it fills seen through number_errors and failed_objects.       *)
(*                                                                         *)
(* WeaviateClient, the module-level weaviate_client, weaviate_connection   *)
(* (backend/weaviate_client.py) and WeaviateOperations._get_client         *)
(* (backend/weaviate_operations.py): connections are numbered in the       *)
(* order they are opened and are "open" or "closed".                       *)
(***************************************************************************)
EXTENDS Integers, Sequences, FiniteSets, TLC

\* ---------------------------------------------------------------- bounds
MaxLen == 6           \* longest text drawn exhaustively
MaxChunkSize == 5     \* chunk_size ranges over 0..MaxChunkSize
MaxOverlapSteps == 4  \* overlap ranges over 1 and 0, 5, ..., 5 * MaxOverlapSteps
PairMaxLen == 4       \* longest text of two concurrent calls
PairMaxChunkSize == 2 \* chunk_size of two concurrent calls ranges over 1..PairMaxChunkSize
CopyMaxLen == 5       \* longest text of the two copies run side by side
MaxNameLen == 5       \* longest file name of an upload request
MaxResultChunks == 2  \* largest total_chunks handed back to the upload handler
LongPdfWords == 32    \* words of the longest PDF
MaxConnections == 3   \* connections opened in one run

\* ------------------------------------------------------- program constants
OverlapDivisor == 10

\* ------------------------------------------------------------------ inputs
Whitespace == {" ", "\t", "\n", "\r"}
Alphabet == {"a", "b", " "}
Texts == UNION {[1..n -> Alphabet] : n \in 0..MaxLen}
ChunkSizes == 0..MaxChunkSize
Overlaps == {1} \cup {5 * k : k \in 0..MaxOverlapSteps}

RECURSIVE Repeat(_, _)
Repeat(s, n) == IF n = 0 THEN <<>> ELSE s \o Repeat(s, n - 1)

\* "a bbbbbbbbbb cccccccccc dddddddddd eeeeeeeeee"
OverlapExampleText ==
    <<"a">> \o <<" ">> \o Repeat(<<"b">>, 10) \o <<" ">> \o Repeat(<<"c">>, 10)
            \o <<" ">> \o Repeat(<<"d">>, 10) \o <<" ">> \o Repeat(<<"e">>, 10)
OverlapExample == <<OverlapExampleText, 50, 20>>

\* 150 words of 10 characters each, separated by single spaces
OverflowExampleText == Repeat(Repeat(<<"w">>, 10) \o <<" ">>, 150)
OverflowExample == <<OverflowExampleText, 100, 0>>

\* chunk_text("hello") with the default chunk_size and overlap
HelloExample == << <<"h", "e", "l", "l", "o">>, 1000, 200 >>

Inputs ==
    (Texts \X ChunkSizes \X Overlaps) \cup {OverlapExample, OverflowExample, HelloExample}

\* inputs of two concurrent calls, and of the two copies run side by side
PairTexts == UNION {[1..n -> {"a", " "}] : n \in 0..PairMaxLen}
PairInputs == PairTexts \X (1..PairMaxChunkSize) \X {0, 15}
CopyInputs == {inp \in Inputs : Len(inp[1]) <= CopyMaxLen}

\* ----------------------------------------------------------------- helpers
Min(a, b) == IF a < b THEN a ELSE b
Max(a, b) == IF a > b THEN a ELSE b

\* first index >= i of s that holds a whitespace character, Len(s) + 1
\* when there is none
RECURSIVE WordEnd(_, _)
WordEnd(s, i) ==
    IF i > Len(s) \/ s[i] \in Whitespace THEN i ELSE WordEnd(s, i + 1)

\* a word starts at i: a non-whitespace character not preceded by one
WordStartsAt(s, i) ==
    /\ s[i] \notin Whitespace
    /\ (i = 1 \/ s[i - 1] \in Whitespace)

\* the words of s that start at an index in lo..hi, in order
RECURSIVE WordsStartingIn(_, _, _)
WordsStartingIn(s, lo, hi) ==
    IF lo > hi THEN <<>>
    ELSE IF lo = hi
      THEN (IF WordStartsAt(s, lo) THEN <<SubSeq(s, lo, WordEnd(s, lo) - 1)>> ELSE <<>>)
      ELSE LET mid == (lo + hi) \div 2
           IN WordsStartingIn(s, lo, mid) \o WordsStartingIn(s, mid + 1, hi)

\* the pieces of s[lo..hi] between whitespace characters, empty pieces kept
RECURSIVE PiecesIn(_, _, _)
PiecesIn(s, lo, hi) ==
    IF lo > hi THEN << <<>> >>
    ELSE IF lo = hi
      THEN (IF s[lo] \in Whitespace THEN << <<>>, <<>> >> ELSE << <<s[lo]>> >>)
      ELSE LET mid == (lo + hi) \div 2
               l == PiecesIn(s, lo, mid)
               r == PiecesIn(s, mid + 1, hi)
           IN SubSeq(l, 1, Len(l) - 1) \o << l[Len(l)] \o r[1] >> \o SubSeq(r, 2, Len(r))

\* str.split(' ') semantics: every whitespace character separates and
\* empty tokens are kept
SplitKeepEmpty(s) == PiecesIn(s, 1, Len(s))

\* str.split(): the maximal runs of non-whitespace characters, in order
Split(s) == WordsStartingIn(s, 1, Len(s))

\* ' '.join(ws)
RECURSIVE JoinFrom(_, _)
JoinFrom(ws, i) ==
    IF i > Len(ws) THEN <<>>
    ELSE IF i = Len(ws) THEN ws[i]
    ELSE ws[i] \o <<" ">> \o JoinFrom(ws, i + 1)

Join(ws) == JoinFrom(ws, 1)

\* word_length = len(word) + 1
WordLengthNoSep(w) == Len(w)
WordLengthWide(w) == Len(w) + 2
WordLength(w) == Len(w) + 1

\* sum(len(w) + 1 for w in ws)
RECURSIVE SumFrom(_, _)
SumFrom(ws, i) == IF i > Len(ws) THEN 0 ELSE (Len(ws[i]) + 1) + SumFrom(ws, i + 1)

SumLengths(ws) == SumFrom(ws, 1)

\* seq[start:] for a possibly negative start
SliceFromStrict(seq, start) ==
    LET n == Len(seq)
    IN IF start < 0 /\ n + start < 0 THEN <<>>
       ELSE SubSeq(seq, (IF start < 0 THEN n + start ELSE Min(start, n)) + 1, n)
SliceFrom(seq, start) ==
    LET n == Len(seq)
        b == IF start < 0 THEN Max(n + start, 0) ELSE Min(start, n)
    IN SubSeq(seq, b + 1, n)

\* -overlap//10 parses as (-overlap)//10, floor division
OverlapStartFloor(ov) == -(ov \div OverlapDivisor)
OverlapStart(ov) == (-ov) \div OverlapDivisor

\* current_chunk[-overlap//10:] if overlap > 0 else []
OverlapWordsAlways(cc, ov) == SliceFrom(cc, OverlapStart(ov))
OverlapWords(cc, ov) == IF ov > 0 THEN SliceFrom(cc, OverlapStart(ov)) ELSE <<>>

\* current_chunk = overlap_words + [word]
SeedChunkDropWord(cc, ov, word) == OverlapWords(cc, ov)
SeedChunk(cc, ov, word) == OverlapWords(cc, ov) \o <<word>>

\* current_length + word_length > chunk_size and current_chunk
ShouldCloseUnguarded(cl, wl, cs, cc) == cl + wl > cs
ShouldCloseAtLimit(cl, wl, cs, cc) == cl + wl >= cs /\ cc # <<>>
ShouldCloseLate(cl, wl, cs, cc) == cl > cs /\ cc # <<>>
ShouldClose(cl, wl, cs, cc) == cl + wl > cs /\ cc # <<>>

\* the dict appended to chunks
MakeChunkRunningLength(id, cc) ==
    [chunk_id |-> id, text |-> Join(cc), length |-> SumLengths(cc), word_count |-> Len(cc)]
MakeChunk(id, cc) ==
    [chunk_id |-> id, text |-> Join(cc), length |-> Len(Join(cc)), word_count |-> Len(cc)]

\* chunk_id += 1
NextChunkIdStuck(id) == id
NextChunkId(id) == id + 1

\* chunk_id, current_chunk, current_length and chunks are assigned in the
\* function body: a call uses its own binding, never another call's
SharedBinding(own, other) == other
OwnBinding(own, other) == own

\* the whole call as a function of its arguments: the loop from word i on
RECURSIVE RunFrom(_, _, _, _, _, _, _, _)
RunFrom(ws, i, cc, cl, id, out, cs, ov) ==
    IF i > Len(ws)
      THEN (IF cc # <<>> THEN Append(out, MakeChunk(id, cc)) ELSE out)
      ELSE IF ShouldClose(cl, WordLength(ws[i]), cs, cc)
             THEN RunFrom(ws, i + 1, SeedChunk(cc, ov, ws[i]),
                          SumLengths(SeedChunk(cc, ov, ws[i])), NextChunkId(id),
                          Append(out, MakeChunk(id, cc)), cs, ov)
             ELSE RunFrom(ws, i + 1, Append(cc, ws[i]), cl + WordLength(ws[i]),
                          id, out, cs, ov)

ChunkTextResult(t, cs, ov) ==
    IF Split(t) = <<>> THEN <<>> ELSE RunFrom(Split(t), 1, <<>>, 0, 0, <<>>, cs, ov)

\* ---- the copy of chunk_text in test_pdf_upload.py
\* word_length = len(word) + 1
WordLengthOld(w) == Len(w) + 1

\* current_length + word_length > chunk_size and current_chunk
ShouldCloseOld(cl, wl, cs, cc) == cl + wl > cs /\ cc # <<>>

\* current_chunk[-overlap//10:] if overlap > 0 else []
OverlapWordsOldFloor(cc, ov) ==
    IF ov > 0 THEN SliceFrom(cc, -(ov \div OverlapDivisor)) ELSE <<>>
OverlapWordsOld(cc, ov) ==
    IF ov > 0 THEN SliceFrom(cc, (-ov) \div OverlapDivisor) ELSE <<>>

\* current_chunk = overlap_words + [word]
SeedChunkOld(cc, ov, word) == OverlapWordsOld(cc, ov) \o <<word>>

\* the dict appended to chunks
MakeChunkOld(id, cc) ==
    [chunk_id |-> id, text |-> Join(cc), length |-> Len(Join(cc)), word_count |-> Len(cc)]

\* ---- process_user_pdf and extract_pdf_text (test_pdf_upload_fixed.py)
\* chunk_text(extracted_text) runs with the defaults of its signature
DefaultChunkSize == 1000
DefaultOverlap == 200

\* if batch.number_errors > 10: break
ErrorLimit == 10
TooManyErrorsLate(n) == n > ErrorLimit + 1
TooManyErrors(n) == n > ErrorLimit

\* a PDF is the sequence of the texts of its pages (page.extract_text())
PdfWord == Repeat(<<"w">>, 49)
NoPagesPdf == <<>>
BlankPdf == << <<" ", "\n">>, <<>> >>
HelloPdf == << <<"\n", "h", "i", " ">>, <<"y", "o", "u", "\n">> >>
LongPdf ==
    << <<"\n">> \o PdfWord \o <<" ">>,
       Repeat(PdfWord \o <<" ">>, LongPdfWords - 1) >>
Pdfs == {NoPagesPdf, BlankPdf, HelloPdf, LongPdf}

\* for page in pages: text_content += page.extract_text()
RECURSIVE ConcatPages(_, _)
ConcatPages(pages, i) ==
    IF i > Len(pages) THEN <<>> ELSE pages[i] \o ConcatPages(pages, i + 1)

\* str.strip(): drop the leading and the trailing whitespace
RECURSIVE SkipWhitespace(_, _)
SkipWhitespace(s, i) ==
    IF i > Len(s) \/ s[i] \notin Whitespace THEN i ELSE SkipWhitespace(s, i + 1)

RECURSIVE SkipWhitespaceBack(_, _)
SkipWhitespaceBack(s, i) ==
    IF i < 1 \/ s[i] \notin Whitespace THEN i ELSE SkipWhitespaceBack(s, i - 1)

Strip(s) == SubSeq(s, SkipWhitespace(s, 1), SkipWhitespaceBack(s, Len(s)))

\* return text_content.strip()
ExtractPdfText(pages) == Strip(ConcatPages(pages, 1))

\* the object handed to batch.add_object for a chunk
MakeBatchObject(c) ==
    [text |-> c.text, chunk_id |-> c.chunk_id, length |-> c.length, word_count |-> c.word_count]

\* the dictionary returned when nothing raised
SuccessResult(nchunks, nfailed, textlen) ==
    [success |-> TRUE, total_chunks |-> nchunks,
     successful_uploads |-> nchunks - nfailed, failed_uploads |-> nfailed,
     extracted_text_length |-> textlen]

\* the dictionary returned by the except clause: error is str(e)
FailureResult(e) ==
    [success |-> FALSE, error |-> e, message |-> <<"Failed to process PDF: ", e>>]

NoResult == [success |-> FALSE, error |-> "", message |-> <<>>]

\* except Exception as e: return {...}; the exception never leaves the call
ExceptPropagates(e) == [pc |-> "raised", result |-> NoResult]
ExceptReturns(e) == [pc |-> "returned", result |-> FailureResult(e)]

\* the exceptions the collaborators raise, by their messages
CollectionError == "collection not found"
ExtractError == "cannot read PDF"
AddObjectError == "batch closed"
BatchExitError == "batch flush failed"

\* ---- upload_pdf and allowed_file (api_server.py)
ALLOWED_EXTENSIONS == {<<"p", "d", "f">>}
MAX_FILE_SIZE == 16 * 1024 * 1024

\* the requests: whether the form has a 'pdf' part, its filename, its size
NameAlphabet == {".", "p", "d", "f", "D"}
FileNames == UNION {[1..n -> NameAlphabet] : n \in 0..MaxNameLen}
FileSizes == {0, MAX_FILE_SIZE - 1, MAX_FILE_SIZE, MAX_FILE_SIZE + 1}
Requests == [has_pdf : BOOLEAN, filename : FileNames, file_size : FileSizes]

\* str.lower() on the characters of a file name
LowerChar(c) ==
    CASE c = "P" -> "p" [] c = "D" -> "d" [] c = "F" -> "f" [] OTHER -> c
Lower(s) == [i \in 1..Len(s) |-> LowerChar(s[i])]

\* index of the last '.' of a name, 0 when it has none
RECURSIVE LastDot(_, _)
LastDot(name, i) ==
    IF i < 1 THEN 0 ELSE IF name[i] = "." THEN i ELSE LastDot(name, i - 1)

\* filename.rsplit('.', 1)[1]
Extension(name) == SubSeq(name, LastDot(name, Len(name)) + 1, Len(name))

\* '.' in filename and filename.rsplit('.', 1)[1].lower() in ALLOWED_EXTENSIONS
allowed_file(filename) ==
    /\ LastDot(filename, Len(filename)) # 0
    /\ Lower(Extension(filename)) \in ALLOWED_EXTENSIONS

\* if file_size > MAX_FILE_SIZE
FileTooLargeAtLimit(file_size) == file_size >= MAX_FILE_SIZE
FileTooLarge(file_size) == file_size > MAX_FILE_SIZE

\* what process_user_pdf hands back to the handler
UploadResults ==
    UNION {{SuccessResult(n, f, l) : f \in 0..n, l \in {0, 5}} : n \in 0..MaxResultChunks}
        \cup {FailureResult(ExtractError)}

\* the responses: jsonify(...), status
NoResponse == [status |-> 0]
Rejected(error) == [status |-> 400, success |-> FALSE, error |-> error]
Failed(error) == [status |-> 500, success |-> FALSE, error |-> error]
ProcessedSwapped(result) ==
    [status |-> 200, success |-> TRUE,
     data |-> [total_chunks |-> result.total_chunks,
               successful_uploads |-> result.failed_uploads,
               failed_uploads |-> result.successful_uploads,
               extracted_text_length |-> result.extracted_text_length]]
Processed(result) ==
    [status |-> 200, success |-> TRUE,
     data |-> [total_chunks |-> result.total_chunks,
               successful_uploads |-> result.successful_uploads,
               failed_uploads |-> result.failed_uploads,
               extracted_text_length |-> result.extracted_text_length]]

\* the exceptions raised around the temporary file, by their messages
CreateError == "cannot create temporary file"
SaveError == "cannot write upload"
ProcessError == "processing raised"

\* ---- WeaviateClient (weaviate_client.py), WeaviateOperations (weaviate_operations.py)
\* self.client is None
None == 0

\* __init__: self.client = None; self._is_connected = False
NewWeaviateClient == [client |-> None, connected |-> FALSE]

\* return self._is_connected and self.client is not None
is_connected(wc) == wc.connected /\ wc.client # None

\* a connection is the index of its status in the sequence of connections
Opened(conns) == Append(conns, "open")
Closed(conns, id) == [conns EXCEPT ![id] = "closed"]

\* the record of a completed call: its name, how it ended, what it returned
Call(name, outcome, value) == [name |-> name, outcome |-> outcome, value |-> value]
NoCallYet == Call("none", "returned", None)

\* ------------------------------------------------------------------- state
VARIABLES text, chunk_size, overlap,   \* arguments of the call
          words, idx,                  \* text.split() and the loop position
          current_chunk, current_length, chunk_id, chunks,
          pc,
          \* the second call
          text2, chunk_size2, overlap2, words2, idx2,
          current_chunk2, current_length2, chunk_id2, chunks2, pc2

vars1 == <<text, chunk_size, overlap, words, idx,
           current_chunk, current_length, chunk_id, chunks, pc>>

vars2 == <<text2, chunk_size2, overlap2, words2, idx2,
           current_chunk2, current_length2, chunk_id2, chunks2, pc2>>

\* one request handled by upload_pdf
VARIABLES request,        \* the multipart request
          upload_pc,      \* position of the handler
          temp_file,      \* the temporary file: "none", "exists" or "unlinked"
          process_calls,  \* number of calls of process_user_pdf
          result,         \* what process_user_pdf returned
          response        \* the response of the handler

vars3 == <<request, upload_pc, temp_file, process_calls, result, response>>

\* one call of process_user_pdf
VARIABLES pdf,            \* the file at pdf_path, as the texts of its pages
          process_pc,     \* position of the call
          extracted_text,
          pdf_chunks,     \* chunks
          batch_objects,  \* the objects added to the batch, in order
          number_errors,  \* batch.number_errors
          failed_count,
          process_result, \* the return value
          caught          \* str(e) of the exception caught, "" when none

vars4 == <<pdf, process_pc, extracted_text, pdf_chunks, batch_objects,
           number_errors, failed_count, process_result, caught>>

\* the connections and the objects that hold them
VARIABLES connections,      \* status of every connection ever opened
          weaviate_client,  \* the module-level WeaviateClient
          ops_client,       \* WeaviateOperations.client of weaviate_ops
          temp_client,      \* the WeaviateClient of weaviate_connection
          context_pc,       \* "outside" or "inside" the with-block
          last_call,        \* the most recent completed call
          last_switch       \* the most recent connect_to_cloud that succeeded
                            \* or disconnect that returned, on weaviate_client

vars5 == <<connections, weaviate_client, ops_client, temp_client, context_pc,
           last_call, last_switch>>

vars == <<vars1, vars2, vars3, vars4, vars5>>

args == <<text, chunk_size, overlap>>
args2 == <<text2, chunk_size2, overlap2>>

\* the locals of a call that has not executed its first statement
Fresh1 ==
    /\ words = <<>> /\ idx = 1 /\ current_chunk = <<>> /\ current_length = 0
    /\ chunk_id = 0 /\ chunks = <<>> /\ pc = "start"

Fresh2 ==
    /\ words2 = <<>> /\ idx2 = 1 /\ current_chunk2 = <<>> /\ current_length2 = 0
    /\ chunk_id2 = 0 /\ chunks2 = <<>> /\ pc2 = "start"

\* no call of chunk_text is made
NoCall1 ==
    /\ text = <<>> /\ chunk_size = 0 /\ overlap = 0
    /\ words = <<>> /\ idx = 1 /\ current_chunk = <<>> /\ current_length = 0
    /\ chunk_id = 0 /\ chunks = <<>> /\ pc = "idle"

\* no request is being handled
NoUpload ==
    /\ request = [has_pdf |-> FALSE, filename |-> <<>>, file_size |-> 0]
    /\ upload_pc = "idle" /\ temp_file = "none" /\ process_calls = 0
    /\ result = NoResult /\ response = NoResponse

\* process_user_pdf is not running
NoProcess ==
    /\ pdf = <<>> /\ process_pc = "idle" /\ extracted_text = <<>>
    /\ pdf_chunks = <<>> /\ batch_objects = <<>> /\ number_errors = 0
    /\ failed_count = 0 /\ process_result = NoResult /\ caught = ""

\* the state of the connection modules after import
NoClient ==
    /\ connections = <<>> /\ weaviate_client = NewWeaviateClient
    /\ ops_client = None /\ temp_client = NewWeaviateClient
    /\ context_pc = "outside" /\ last_call = NoCallYet /\ last_switch = "none"

\* nothing but chunk_text runs
others == <<vars3, vars4, vars5>>
NoOthers == NoUpload /\ NoProcess /\ NoClient

\* no second call is made
NoCall2 ==
    /\ text2 = <<>> /\ chunk_size2 = 0 /\ overlap2 = 0
    /\ words2 = <<>> /\ idx2 = 1 /\ current_chunk2 = <<>> /\ current_length2 = 0
    /\ chunk_id2 = 0 /\ chunks2 = <<>> /\ pc2 = "idle"

Init ==
    /\ \E inp \in Inputs : text = inp[1] /\ chunk_size = inp[2] /\ overlap = inp[3]
    /\ words = <<>>
    /\ idx = 1
    /\ current_chunk = <<>>
    /\ current_length = 0
    /\ chunk_id = 0
    /\ chunks = <<>>
    /\ pc = "start"
    /\ NoCall2
    /\ NoOthers

\* lines 100-108: chunks = []; words = text.split(); if not words: return
Start ==
    /\ pc = "start"
    /\ words' = Split(text)
    /\ pc' = IF words' = <<>> THEN "done" ELSE "loop"
    /\ UNCHANGED <<text, chunk_size, overlap, idx,
                   current_chunk, current_length, chunk_id, chunks>>
    /\ UNCHANGED <<vars2, others>>

\* lines 113-127: the word does not fit: emit the chunk, seed the next
CloseChunk ==
    /\ pc = "loop"
    /\ idx <= Len(words)
    /\ ShouldClose(current_length, WordLength(words[idx]), chunk_size, current_chunk)
    /\ chunks' = Append(chunks, MakeChunk(chunk_id, current_chunk))
    /\ current_chunk' = SeedChunk(current_chunk, overlap, words[idx])
    /\ current_length' = SumLengths(SeedChunk(current_chunk, overlap, words[idx]))
    /\ chunk_id' = NextChunkId(chunk_id)
    /\ idx' = idx + 1
    /\ UNCHANGED <<text, chunk_size, overlap, words, pc>>
    /\ UNCHANGED <<vars2, others>>

\* lines 128-130: the word fits, or the accumulator is empty
AppendWord ==
    /\ pc = "loop"
    /\ idx <= Len(words)
    /\ ~ShouldClose(current_length, WordLength(words[idx]), chunk_size, current_chunk)
    /\ current_chunk' = Append(current_chunk, words[idx])
    /\ current_length' = current_length + WordLength(words[idx])
    /\ idx' = idx + 1
    /\ UNCHANGED <<text, chunk_size, overlap, words, chunk_id, chunks, pc>>
    /\ UNCHANGED <<vars2, others>>

\* lines 132-142: if current_chunk: append the final chunk; return chunks
Finish ==
    /\ pc = "loop"
    /\ idx > Len(words)
    /\ chunks' = IF current_chunk # <<>>
                   THEN Append(chunks, MakeChunk(chunk_id, current_chunk))
                   ELSE chunks
    /\ pc' = "done"
    /\ UNCHANGED <<text, chunk_size, overlap, words, idx,
                   current_chunk, current_length, chunk_id>>
    /\ UNCHANGED <<vars2, others>>

Next == Start \/ CloseChunk \/ AppendWord \/ Finish

Spec == Init /\ [][Next]_vars

\* ---- a second call of the same function, running concurrently
Start2 ==
    /\ pc2 = "start"
    /\ words2' = Split(text2)
    /\ pc2' = IF words2' = <<>> THEN "done" ELSE "loop"
    /\ UNCHANGED <<text2, chunk_size2, overlap2, idx2,
                   current_chunk2, current_length2, chunk_id2, chunks2>>
    /\ UNCHANGED <<vars1, others>>

CloseChunk2 ==
    /\ pc2 = "loop"
    /\ idx2 <= Len(words2)
    /\ ShouldClose(current_length2, WordLength(words2[idx2]), chunk_size2, current_chunk2)
    /\ chunks2' = Append(chunks2, MakeChunk(OwnBinding(chunk_id2, chunk_id), current_chunk2))
    /\ current_chunk2' = SeedChunk(current_chunk2, overlap2, words2[idx2])
    /\ current_length2' = SumLengths(SeedChunk(current_chunk2, overlap2, words2[idx2]))
    /\ chunk_id2' = NextChunkId(OwnBinding(chunk_id2, chunk_id))
    /\ idx2' = idx2 + 1
    /\ UNCHANGED <<text2, chunk_size2, overlap2, words2, pc2>>
    /\ UNCHANGED <<vars1, others>>

AppendWord2 ==
    /\ pc2 = "loop"
    /\ idx2 <= Len(words2)
    /\ ~ShouldClose(current_length2, WordLength(words2[idx2]), chunk_size2, current_chunk2)
    /\ current_chunk2' = Append(current_chunk2, words2[idx2])
    /\ current_length2' = current_length2 + WordLength(words2[idx2])
    /\ idx2' = idx2 + 1
    /\ UNCHANGED <<text2, chunk_size2, overlap2, words2, chunk_id2, chunks2, pc2>>
    /\ UNCHANGED <<vars1, others>>

Finish2 ==
    /\ pc2 = "loop"
    /\ idx2 > Len(words2)
    /\ chunks2' = IF current_chunk2 # <<>>
                    THEN Append(chunks2, MakeChunk(OwnBinding(chunk_id2, chunk_id),
                                                   current_chunk2))
                    ELSE chunks2
    /\ pc2' = "done"
    /\ UNCHANGED <<text2, chunk_size2, overlap2, words2, idx2,
                   current_chunk2, current_length2, chunk_id2>>
    /\ UNCHANGED <<vars1, others>>

PairInit ==
    /\ \E inp \in PairInputs : text = inp[1] /\ chunk_size = inp[2] /\ overlap = inp[3]
    /\ \E inp \in PairInputs : text2 = inp[1] /\ chunk_size2 = inp[2] /\ overlap2 = inp[3]
    /\ Fresh1
    /\ Fresh2
    /\ NoOthers

PairNext ==
    \/ Start \/ CloseChunk \/ AppendWord \/ Finish
    \/ Start2 \/ CloseChunk2 \/ AppendWord2 \/ Finish2

SpecPair == PairInit /\ [][PairNext]_vars

\* ---- chunk_text of test_pdf_upload.py, lines 70-112, on the second record
StartOld ==
    /\ pc2 = "start"
    /\ words2' = Split(text2)
    /\ pc2' = IF words2' = <<>> THEN "done" ELSE "loop"
    /\ UNCHANGED <<text2, chunk_size2, overlap2, idx2,
                   current_chunk2, current_length2, chunk_id2, chunks2>>
    /\ UNCHANGED <<vars1, others>>

CloseChunkOld ==
    /\ pc2 = "loop"
    /\ idx2 <= Len(words2)
    /\ ShouldCloseOld(current_length2, WordLengthOld(words2[idx2]), chunk_size2,
                      current_chunk2)
    /\ chunks2' = Append(chunks2, MakeChunkOld(chunk_id2, current_chunk2))
    /\ current_chunk2' = SeedChunkOld(current_chunk2, overlap2, words2[idx2])
    /\ current_length2' = SumLengths(SeedChunkOld(current_chunk2, overlap2, words2[idx2]))
    /\ chunk_id2' = chunk_id2 + 1
    /\ idx2' = idx2 + 1
    /\ UNCHANGED <<text2, chunk_size2, overlap2, words2, pc2>>
    /\ UNCHANGED <<vars1, others>>

AppendWordOld ==
    /\ pc2 = "loop"
    /\ idx2 <= Len(words2)
    /\ ~ShouldCloseOld(current_length2, WordLengthOld(words2[idx2]), chunk_size2,
                       current_chunk2)
    /\ current_chunk2' = Append(current_chunk2, words2[idx2])
    /\ current_length2' = current_length2 + WordLengthOld(words2[idx2])
    /\ idx2' = idx2 + 1
    /\ UNCHANGED <<text2, chunk_size2, overlap2, words2, chunk_id2, chunks2, pc2>>
    /\ UNCHANGED <<vars1, others>>

FinishOld ==
    /\ pc2 = "loop"
    /\ idx2 > Len(words2)
    /\ chunks2' = IF current_chunk2 # <<>>
                    THEN Append(chunks2, MakeChunkOld(chunk_id2, current_chunk2))
                    ELSE chunks2
    /\ pc2' = "done"
    /\ UNCHANGED <<text2, chunk_size2, overlap2, words2, idx2,
                   current_chunk2, current_length2, chunk_id2>>
    /\ UNCHANGED <<vars1, others>>

CopiesInit ==
    /\ \E inp \in CopyInputs :
           /\ text = inp[1] /\ chunk_size = inp[2] /\ overlap = inp[3]
           /\ text2 = inp[1] /\ chunk_size2 = inp[2] /\ overlap2 = inp[3]
    /\ Fresh1
    /\ Fresh2
    /\ NoOthers

CopiesNext ==
    \/ Start \/ CloseChunk \/ AppendWord \/ Finish
    \/ StartOld \/ CloseChunkOld \/ AppendWordOld \/ FinishOld

SpecCopies == CopiesInit /\ [][CopiesNext]_vars

\* ----------------------------------------------------- upload_pdf, stepwise
\* lines 47-52: if 'pdf' not in request.files: 400
CheckFilePart ==
    /\ upload_pc = "check_part"
    /\ \/ /\ ~request.has_pdf
          /\ response' = Rejected("No file uploaded")
          /\ upload_pc' = "responded"
       \/ /\ request.has_pdf
          /\ upload_pc' = "check_name"
          /\ UNCHANGED response
    /\ UNCHANGED <<request, temp_file, process_calls, result>>
    /\ UNCHANGED <<vars1, vars2, vars4, vars5>>

\* lines 57-62: if file.filename == '': 400
CheckFilename ==
    /\ upload_pc = "check_name"
    /\ \/ /\ request.filename = <<>>
          /\ response' = Rejected("No file selected")
          /\ upload_pc' = "responded"
       \/ /\ request.filename # <<>>
          /\ upload_pc' = "check_size"
          /\ UNCHANGED response
    /\ UNCHANGED <<request, temp_file, process_calls, result>>
    /\ UNCHANGED <<vars1, vars2, vars4, vars5>>

\* lines 65-74: if file_size > MAX_FILE_SIZE: 400
CheckSize ==
    /\ upload_pc = "check_size"
    /\ \/ /\ FileTooLarge(request.file_size)
          /\ response' = Rejected("File too large")
          /\ upload_pc' = "responded"
       \/ /\ ~FileTooLarge(request.file_size)
          /\ upload_pc' = "check_type"
          /\ UNCHANGED response
    /\ UNCHANGED <<request, temp_file, process_calls, result>>
    /\ UNCHANGED <<vars1, vars2, vars4, vars5>>

\* lines 76 and 127-132: if file and allowed_file(file.filename) ... else 400
\* (a FileStorage is true when its filename is non-empty)
CheckType ==
    /\ upload_pc = "check_type"
    /\ \/ /\ request.filename # <<>> /\ allowed_file(request.filename)
          /\ upload_pc' = "save"
          /\ UNCHANGED response
       \/ /\ ~(request.filename # <<>> /\ allowed_file(request.filename))
          /\ response' = Rejected("Invalid file type")
          /\ upload_pc' = "responded"
    /\ UNCHANGED <<request, temp_file, process_calls, result>>
    /\ UNCHANGED <<vars1, vars2, vars4, vars5>>

\* lines 81-83: the temporary file is created with delete=False and the
\* upload is saved into it; an exception raised here is caught by the outer
\* except clause (lines 134-140), which answers 500 and unlinks nothing
SaveUpload ==
    /\ upload_pc = "save"
    /\ \/ /\ temp_file' = "exists"
          /\ upload_pc' = "process"
          /\ UNCHANGED response
       \/ /\ temp_file' = "none"
          /\ response' = Failed(CreateError)
          /\ upload_pc' = "responded"
       \/ /\ temp_file' = "exists"
          /\ response' = Failed(SaveError)
          /\ upload_pc' = "responded"
    /\ UNCHANGED <<request, process_calls, result>>
    /\ UNCHANGED <<vars1, vars2, vars4, vars5>>

\* lines 87-126: result = process_user_pdf(temp_file_path); os.unlink; the
\* response by result["success"]; an exception raised in the block is caught
\* at line 116, where the file is unlinked if it still exists
ProcessUpload ==
    /\ upload_pc = "process"
    /\ process_calls' = process_calls + 1
    /\ \/ \E r \in UploadResults :
            /\ result' = r
            /\ response' = IF r.success THEN Processed(r) ELSE Failed(r.error)
       \/ /\ result' = NoResult
          /\ response' = Failed(ProcessError)
    /\ temp_file' = "unlinked"
    /\ upload_pc' = "responded"
    /\ UNCHANGED request
    /\ UNCHANGED <<vars1, vars2, vars4, vars5>>

UploadInit ==
    /\ request \in Requests
    /\ upload_pc = "check_part" /\ temp_file = "none" /\ process_calls = 0
    /\ result = NoResult /\ response = NoResponse
    /\ NoCall1 /\ NoCall2
    /\ NoProcess /\ NoClient

UploadNext ==
    CheckFilePart \/ CheckFilename \/ CheckSize \/ CheckType \/ SaveUpload \/ ProcessUpload

SpecUpload == UploadInit /\ [][UploadNext]_vars

\* ------------------------------------------------ process_user_pdf, stepwise
\* an exception raised at any step is caught at line 197
Catch(e) ==
    /\ process_pc' = ExceptReturns(e).pc
    /\ process_result' = ExceptReturns(e).result
    /\ caught' = e

\* line 156: pdf_for_mira = client.collections.get("Pdf_for_mira")
GetCollection ==
    /\ process_pc = "start"
    /\ \/ /\ process_pc' = "extract"
          /\ UNCHANGED <<process_result, caught>>
       \/ Catch(CollectionError)
    /\ UNCHANGED <<pdf, extracted_text, pdf_chunks, batch_objects,
                   number_errors, failed_count>>
    /\ UNCHANGED <<vars1, vars2, vars3, vars5>>

\* lines 158-161: the batch is opened, the text extracted and chunked
ExtractAndChunk ==
    /\ process_pc = "extract"
    /\ \/ /\ extracted_text' = ExtractPdfText(pdf)
          /\ pdf_chunks' =
                ChunkTextResult(ExtractPdfText(pdf), DefaultChunkSize, DefaultOverlap)
          /\ process_pc' = IF pdf_chunks' = <<>> THEN "exit" ELSE "loop"
          /\ UNCHANGED <<process_result, caught>>
       \/ /\ Catch(ExtractError)
          /\ UNCHANGED <<extracted_text, pdf_chunks>>
    /\ UNCHANGED <<pdf, batch_objects, number_errors, failed_count>>
    /\ UNCHANGED <<vars1, vars2, vars3, vars5>>

\* lines 164-174: the next chunk is added to the batch; the batch reports
\* the errors of the objects it has sent so far; above the limit the loop
\* is left
AddObject ==
    /\ process_pc = "loop"
    /\ \/ /\ batch_objects' =
                Append(batch_objects, MakeBatchObject(pdf_chunks[Len(batch_objects) + 1]))
          /\ \E n \in number_errors..(Len(batch_objects) + 1) : number_errors' = n
          /\ process_pc' =
                IF TooManyErrors(number_errors') \/ Len(batch_objects') = Len(pdf_chunks)
                  THEN "exit" ELSE "loop"
          /\ UNCHANGED <<process_result, caught>>
       \/ /\ Catch(AddObjectError)
          /\ UNCHANGED <<batch_objects, number_errors>>
    /\ UNCHANGED <<pdf, extracted_text, pdf_chunks, failed_count>>
    /\ UNCHANGED <<vars1, vars2, vars3, vars5>>

\* lines 158 and 177-195: the batch is closed, which sends what is left;
\* the failed objects are counted and the result is built
CloseBatch ==
    /\ process_pc = "exit"
    /\ \/ \E f \in number_errors..Len(batch_objects) :
            /\ failed_count' = f
            /\ process_result' = SuccessResult(Len(pdf_chunks), f, Len(extracted_text))
            /\ process_pc' = "returned"
            /\ UNCHANGED caught
       \/ /\ Catch(BatchExitError)
          /\ UNCHANGED failed_count
    /\ UNCHANGED <<pdf, extracted_text, pdf_chunks, batch_objects, number_errors>>
    /\ UNCHANGED <<vars1, vars2, vars3, vars5>>

ProcessInit ==
    /\ pdf \in Pdfs
    /\ process_pc = "start" /\ extracted_text = <<>> /\ pdf_chunks = <<>>
    /\ batch_objects = <<>> /\ number_errors = 0 /\ failed_count = 0
    /\ process_result = NoResult /\ caught = ""
    /\ NoCall1 /\ NoCall2 /\ NoUpload /\ NoClient

ProcessNext == GetCollection \/ ExtractAndChunk \/ AddObject \/ CloseBatch

SpecProcess == ProcessInit /\ [][ProcessNext]_vars

\* ------------------------------------------------- the connection modules
ClientFrame == UNCHANGED <<vars1, vars2, vars3, vars4>>

\* connect_to_cloud (lines 22-67) on the module-level client, as called by
\* connect_to_weaviate_cloud (line 128): the new connection is stored and
\* the flag set; a failure raises ConnectionError before either assignment
ConnectToCloud ==
    /\ \/ /\ Len(connections) < MaxConnections
          /\ connections' = Opened(connections)
          /\ weaviate_client' = [client |-> Len(connections) + 1, connected |-> TRUE]
          /\ last_switch' = "connect"
          /\ last_call' = Call("connect_to_cloud", "returned", Len(connections) + 1)
       \/ /\ last_call' = Call("connect_to_cloud", "ConnectionError", None)
          /\ UNCHANGED <<connections, weaviate_client, last_switch>>
    /\ UNCHANGED <<ops_client, temp_client, context_pc>>
    /\ ClientFrame

\* disconnect (lines 69-77) on the module-level client, as called by
\* disconnect_weaviate (line 153): close() and the flag reset are guarded by
\* client and flag; an exception of close() is logged and swallowed, with
\* the flag left set, whatever became of the connection
DisconnectWeaviate ==
    /\ \/ /\ weaviate_client.client # None /\ weaviate_client.connected
          /\ \/ /\ connections' = Closed(connections, weaviate_client.client)
                /\ weaviate_client' = [weaviate_client EXCEPT !.connected = FALSE]
             \/ /\ \E status \in {connections[weaviate_client.client], "closed"} :
                      connections' = [connections EXCEPT ![weaviate_client.client] = status]
                /\ UNCHANGED weaviate_client
       \/ /\ ~(weaviate_client.client # None /\ weaviate_client.connected)
          /\ UNCHANGED <<connections, weaviate_client>>
    /\ last_switch' = "disconnect"
    /\ last_call' = Call("disconnect", "returned", None)
    /\ UNCHANGED <<ops_client, temp_client, context_pc>>
    /\ ClientFrame

\* get_client (lines 83-87) on the module-level client
GetClient ==
    /\ last_call' = IF is_connected(weaviate_client)
                      THEN Call("get_client", "returned", weaviate_client.client)
                      ELSE Call("get_client", "ConnectionError", None)
    /\ UNCHANGED <<connections, weaviate_client, ops_client, temp_client,
                   context_pc, last_switch>>
    /\ ClientFrame

\* get_weaviate_client (lines 107-111): connect when is_connected() is
\* false, then get_client()
GetWeaviateClient ==
    /\ \/ /\ is_connected(weaviate_client)
          /\ last_call' = Call("get_weaviate_client", "returned", weaviate_client.client)
          /\ UNCHANGED <<connections, weaviate_client, last_switch>>
       \/ /\ ~is_connected(weaviate_client)
          /\ Len(connections) < MaxConnections
          /\ connections' = Opened(connections)
          /\ weaviate_client' = [client |-> Len(connections) + 1, connected |-> TRUE]
          /\ last_switch' = "connect"
          /\ last_call' = Call("get_weaviate_client", "returned", Len(connections) + 1)
       \/ /\ ~is_connected(weaviate_client)
          /\ last_call' = Call("get_weaviate_client", "ConnectionError", None)
          /\ UNCHANGED <<connections, weaviate_client, last_switch>>
    /\ UNCHANGED <<ops_client, temp_client, context_pc>>
    /\ ClientFrame

\* an operation of weaviate_ops: client = self._get_client()
\* (weaviate_operations.py lines 22-26), which asks get_weaviate_client only
\* while self.client is None, and then the operation runs on that client; a
\* ConnectionError is caught by the operation, which reports failure
Operation ==
    /\ \/ /\ ops_client # None
          /\ last_call' = Call("operation", "ran", ops_client)
          /\ UNCHANGED <<connections, weaviate_client, ops_client, last_switch>>
       \/ /\ ops_client = None /\ is_connected(weaviate_client)
          /\ ops_client' = weaviate_client.client
          /\ last_call' = Call("operation", "ran", weaviate_client.client)
          /\ UNCHANGED <<connections, weaviate_client, last_switch>>
       \/ /\ ops_client = None /\ ~is_connected(weaviate_client)
          /\ Len(connections) < MaxConnections
          /\ connections' = Opened(connections)
          /\ weaviate_client' = [client |-> Len(connections) + 1, connected |-> TRUE]
          /\ last_switch' = "connect"
          /\ ops_client' = Len(connections) + 1
          /\ last_call' = Call("operation", "ran", Len(connections) + 1)
       \/ /\ ops_client = None /\ ~is_connected(weaviate_client)
          /\ last_call' = Call("operation", "failed", None)
          /\ UNCHANGED <<connections, weaviate_client, ops_client, last_switch>>
    /\ UNCHANGED <<temp_client, context_pc>>
    /\ ClientFrame

\* weaviate_connection up to the yield (lines 143-146): a new WeaviateClient
\* connects; when that fails the finally clause calls disconnect() on a
\* client that holds nothing, and the ConnectionError propagates
EnterContext ==
    /\ context_pc = "outside"
    /\ \/ /\ Len(connections) < MaxConnections
          /\ connections' = Opened(connections)
          /\ temp_client' = [client |-> Len(connections) + 1, connected |-> TRUE]
          /\ context_pc' = "inside"
          /\ last_call' = Call("enter", "returned", Len(connections) + 1)
       \/ /\ temp_client' = NewWeaviateClient
          /\ last_call' = Call("enter", "ConnectionError", None)
          /\ UNCHANGED <<connections, context_pc>>
    /\ UNCHANGED <<weaviate_client, ops_client, last_switch>>
    /\ ClientFrame

\* the with-block is left, normally or by an exception of the body, and the
\* finally clause (lines 147-148) calls temp_client.disconnect()
ExitContext ==
    /\ context_pc = "inside"
    /\ \/ /\ connections' = Closed(connections, temp_client.client)
          /\ temp_client' = [temp_client EXCEPT !.connected = FALSE]
       \/ /\ \E status \in {connections[temp_client.client], "closed"} :
                connections' = [connections EXCEPT ![temp_client.client] = status]
          /\ UNCHANGED temp_client
    /\ \E how \in {"returned", "body raised"} : last_call' = Call("exit", how, None)
    /\ context_pc' = "outside"
    /\ UNCHANGED <<weaviate_client, ops_client, last_switch>>
    /\ ClientFrame

ClientInit == NoCall1 /\ NoCall2 /\ NoUpload /\ NoProcess /\ NoClient

ClientNext ==
    \/ ConnectToCloud \/ DisconnectWeaviate \/ GetClient \/ GetWeaviateClient
    \/ Operation \/ EnterContext \/ ExitContext

SpecClient == ClientInit /\ [][ClientNext]_vars

TypeOK ==
    /\ pc \in {"start", "loop", "done"}
    /\ idx \in 1..(Len(words) + 1)
    /\ chunk_id \in Nat
    /\ current_length \in Nat
    /\ Len(chunks) <= Len(words)

\* ------------------------------------------------- vocabulary of the claims
Range(f) == {f[i] : i \in DOMAIN f}

\* the words of an emitted chunk, read back from its text
ChunkWords(c) == SplitKeepEmpty(c.text)

\* the last n elements of a sequence (all of it when it has fewer)
LastN(seq, n) == SubSeq(seq, Len(seq) - Min(n, Len(seq)) + 1, Len(seq))
FirstN(seq, n) == SubSeq(seq, 1, Min(n, Len(seq)))

\* number of words chunk k starts with that repeat the tail of chunk k - 1
CarriedInto(k) ==
    IF k = 1 \/ overlap <= 0 THEN 0
    ELSE Min((overlap + OverlapDivisor - 1) \div OverlapDivisor, chunks[k - 1].word_count)

\* the words of chunk k that were not carried over
FreshWords(k) ==
    SubSeq(ChunkWords(chunks[k]), CarriedInto(k) + 1, Len(ChunkWords(chunks[k])))

RECURSIVE FreshUpTo(_)
FreshUpTo(k) == IF k = 0 THEN <<>> ELSE FreshUpTo(k - 1) \o FreshWords(k)

RECURSIVE AllWordsUpTo(_)
AllWordsUpTo(k) == IF k = 0 THEN <<>> ELSE AllWordsUpTo(k - 1) \o ChunkWords(chunks[k])

RECURSIVE WordCountUpTo(_)
WordCountUpTo(k) == IF k = 0 THEN 0 ELSE WordCountUpTo(k - 1) + chunks[k].word_count

RECURSIVE CharsFrom(_, _)
CharsFrom(ws, i) == IF i > Len(ws) THEN 0 ELSE Len(ws[i]) + CharsFrom(ws, i + 1)

NoTokens == \A i \in 1..Len(text) : text[i] \in Whitespace

\* the step just taken closed a chunk inside the loop
ClosedAChunk == pc = "loop" /\ pc' = "loop" /\ Len(chunks') = Len(chunks) + 1

\* ------------------------------------------------------------------ claims

\* C1: for a text with at least one token, chunk_size >= 1 and overlap >= 0,
\* dropping from every chunk after the first its carried-over leading words
\* and concatenating what remains, in chunk order, gives text.split().
C1_Coverage ==
    (pc = "done" /\ ~NoTokens /\ chunk_size >= 1 /\ overlap >= 0)
        => FreshUpTo(Len(chunks)) = Split(text)

C1_Witness ==
    /\ pc = "done" /\ chunk_size >= 1 /\ overlap = 20
    /\ Len(chunks) >= 3
    /\ CarriedInto(3) = 2
    /\ FreshUpTo(Len(chunks)) = Split(text)

\* C2: at every moment of the run the i-th emitted chunk (from 0) has
\* chunk_id i.
C2_DenseIds == \A k \in 1..Len(chunks) : chunks[k].chunk_id = k - 1

C2_Witness == pc = "loop" /\ Len(chunks) >= 3 /\ chunks[3].chunk_id = 2

\* C3: no emitted chunk is empty: word_count >= 1 and the text is non-empty.
C3_NoEmptyChunk ==
    \A k \in 1..Len(chunks) : chunks[k].word_count >= 1 /\ chunks[k].text # <<>>

C3_Witness ==
    /\ Len(chunks) >= 2
    /\ \A i \in 1..Len(words) : Len(words[i]) > chunk_size
    /\ chunks[1].word_count >= 1

\* C4: length is the number of characters of text, i.e. the characters of
\* the chunk's words plus word_count - 1 separators, and word_count is the
\* number of space-separated tokens of text.
C4_SizeMetadata ==
    \A k \in 1..Len(chunks) :
        LET c == chunks[k] IN
        /\ c.length = Len(c.text)
        /\ c.length = CharsFrom(ChunkWords(c), 1) + (c.word_count - 1)
        /\ c.word_count = Len(ChunkWords(c))

C4_Witness ==
    /\ pc = "done" /\ Len(chunks) >= 2
    /\ chunks[2].word_count >= 2 /\ chunks[2].length >= 4

\* C5: a text without tokens gives no chunk, whatever chunk_size and
\* overlap are, and a text with a token gives at least one chunk.
C5_EmptyInput == pc = "done" => (NoTokens <=> chunks = <<>>)

C5_Witness == pc = "done" /\ Len(text) >= 2 /\ NoTokens /\ chunks = <<>>

\* C6 as stated: for overlap > 0, a close seeds the next chunk with the last
\* overlap // 10 (floor) words of the closed chunk, then the word that did
\* not fit.
C6_FloorSeed ==
    [][(ClosedAChunk /\ overlap > 0) =>
         current_chunk' = LastN(current_chunk, overlap \div OverlapDivisor)
                              \o <<words[idx]>>]_vars

\* C6 amended: for overlap > 0, a close seeds the next chunk with the last
\* ceil(overlap / 10) words of the closed chunk (all of them when it has
\* fewer), in their order, then the word that did not fit.
C6_CeilSeed ==
    [][(ClosedAChunk /\ overlap > 0) =>
         current_chunk' =
             LastN(current_chunk, (overlap + OverlapDivisor - 1) \div OverlapDivisor)
                 \o <<words[idx]>>]_vars

C6_Witness ==
    /\ pc = "loop" /\ overlap = 5 /\ Len(chunks) >= 1 /\ idx > 1
    /\ chunks[Len(chunks)].word_count >= 2
    /\ current_chunk = LastN(ChunkWords(chunks[Len(chunks)]), 1) \o <<words[idx - 1]>>

\* C7: with overlap = 0 and chunk_size >= 1 every chunk of two or more words
\* has length <= chunk_size; 150 words of 10 characters with chunk_size 100
\* give more than one chunk, each of at most 9 words.
C7_Budget ==
    /\ (overlap = 0 /\ chunk_size >= 1) =>
           \A k \in 1..Len(chunks) :
               chunks[k].word_count >= 2 => chunks[k].length <= chunk_size
    /\ (pc = "done" /\ args = OverflowExample) =>
           /\ Len(chunks) > 1
           /\ \A k \in 1..Len(chunks) : chunks[k].word_count <= 9

C7_Witness ==
    /\ pc = "done" /\ args = OverflowExample
    /\ Len(chunks) > 1
    /\ chunks[1].word_count = 9 /\ chunks[1].length <= chunk_size

\* C8 as stated: on "a bbbbbbbbbb cccccccccc dddddddddd eeeeeeeeee" with
\* chunk_size 50 and overlap 20 some chunk is closed before the end of the
\* input and its last 2 words are the first 2 words of the next chunk.
C8_OverlapExampleRepeats ==
    (pc = "done" /\ args = OverlapExample) =>
        \E k \in 1..(Len(chunks) - 1) :
            FirstN(ChunkWords(chunks[k + 1]), 2) = LastN(ChunkWords(chunks[k]), 2)

\* C8 amended: on that input no chunk is closed before the end of the input
\* (the running length of the five tokens is 46 <= 50): the result is one
\* chunk holding all five tokens, so no word is repeated.
C8_OverlapExampleSingleChunk ==
    /\ args = OverlapExample => Len(chunks) <= 1
    /\ (pc = "done" /\ args = OverlapExample) =>
           /\ Len(chunks) = 1
           /\ chunks[1].text = OverlapExampleText
           /\ chunks[1].word_count = 5

C8_Witness ==
    pc = "done" /\ args = OverlapExample /\ Len(chunks) = 1 /\ current_length = 46

\* C9: every word of every chunk is a whole token of text.split(); with
\* overlap = 0 a token longer than chunk_size is alone in its chunk.
C9_WholeWords ==
    \A k \in 1..Len(chunks) :
        LET ws == ChunkWords(chunks[k])
            tokens == Range(Split(text))
        IN
        /\ \A j \in 1..Len(ws) : ws[j] \in tokens
        /\ (overlap = 0 /\ \E j \in 1..Len(ws) : Len(ws[j]) > chunk_size)
               => chunks[k].word_count = 1

C9_Witness ==
    /\ pc = "done" /\ overlap = 0 /\ chunk_size >= 1 /\ Len(chunks) >= 3
    /\ chunks[1].length <= chunk_size
    /\ chunks[2].length > chunk_size /\ chunks[2].word_count = 1
    /\ chunks[2].text \in Range(words)

\* C10: with overlap = 0 no word is repeated: the emitted chunks followed by
\* the accumulator are exactly the words consumed so far, and at the end the
\* chunks' words are text.split() and the word counts add up to its length.
C10_NoRepeat ==
    overlap = 0 =>
        /\ pc = "loop" =>
               AllWordsUpTo(Len(chunks)) \o current_chunk = SubSeq(words, 1, idx - 1)
        /\ pc = "done" =>
               /\ AllWordsUpTo(Len(chunks)) = Split(text)
               /\ WordCountUpTo(Len(chunks)) = Len(Split(text))

C10_Witness ==
    /\ pc = "done" /\ overlap = 0 /\ Len(chunks) >= 3
    /\ chunks[1].word_count >= 2
    /\ WordCountUpTo(Len(chunks)) = Len(words)

\* C11: a call with chunk_size <= 0 ends in an InvalidArgument error and
\* returns no chunks, i.e. it never reaches its return and emits nothing
\* (the function has no raise, so every run that ends ends by returning).
C11_InvalidArgument ==
    chunk_size <= 0 => (pc # "done" /\ chunks = <<>>)

\* C14: when all tokens fit (sum of len + 1 <= chunk_size) the result is
\* exactly one chunk, id 0, holding all tokens joined by single spaces, for
\* every overlap; chunk_text("hello", 1000, 200) gives
\* [{chunk_id: 0, text: "hello", length: 5, word_count: 1}].
C14_SingleChunk ==
    /\ (pc = "done" /\ ~NoTokens
           /\ CharsFrom(Split(text), 1) + Len(Split(text)) <= chunk_size) =>
           /\ Len(chunks) = 1
           /\ chunks[1].chunk_id = 0
           /\ chunks[1].text = Join(Split(text))
           /\ chunks[1].word_count = Len(Split(text))
    /\ (pc = "done" /\ args = HelloExample) =>
           chunks = << [chunk_id |-> 0, text |-> <<"h", "e", "l", "l", "o">>,
                        length |-> 5, word_count |-> 1] >>

C14_Witness ==
    /\ pc = "done" /\ overlap > 0 /\ Len(words) >= 2
    /\ current_length = chunk_size
    /\ Len(chunks) = 1 /\ chunks[1].word_count = Len(words)

\* C15: for every overlap >= 0, if every token has at most chunk_size
\* characters then every chunk has length <= chunk_size.
C15_MaxCharacters ==
    (overlap >= 0 /\ \A i \in 1..Len(words) : Len(words[i]) <= chunk_size) =>
        \A k \in 1..Len(chunks) : chunks[k].length <= chunk_size

\* C16: when more words are to be carried over than the closed chunk has,
\* the whole closed chunk is carried: the next chunk is the closed chunk
\* followed by the word that did not fit.
C16_CarryAll ==
    [][(ClosedAChunk /\ overlap > 0
          /\ (overlap + OverlapDivisor - 1) \div OverlapDivisor > Len(current_chunk))
         => current_chunk' = current_chunk \o <<words[idx]>>]_vars

C16_Witness ==
    /\ pc = "loop" /\ overlap = 20 /\ Len(chunks) = 1 /\ idx = 3
    /\ chunks[1].word_count = 1
    /\ current_chunk = ChunkWords(chunks[1]) \o <<words[2]>>

\* C17: the words carried from chunk k to the head of chunk k + 1, joined by
\* single spaces, have at most overlap characters.
C17_OverlapBoundsRepeat ==
    \A k \in 2..Len(chunks) :
        Len(Join(FirstN(ChunkWords(chunks[k]), CarriedInto(k)))) <= overlap

\* C18: after each processed word the running length is the sum of
\* len(w) + 1 over the accumulator, i.e. the length of the accumulator
\* joined by single spaces plus 1.
C18_RunningLength ==
    (pc = "loop" /\ idx > 1) =>
        /\ current_length = CharsFrom(current_chunk, 1) + Len(current_chunk)
        /\ current_length = Len(Join(current_chunk)) + 1

C18_Witness ==
    /\ pc = "loop" /\ Len(chunks) >= 1 /\ overlap = 10
    /\ Len(current_chunk) = 2 /\ Len(current_chunk[1]) = 2
    /\ current_length = Len(Join(current_chunk)) + 1

\* C19: a chunk is closed before the end exactly when the next word does not
\* fit: for a chunk k that is not the last and the first fresh word w of
\* chunk k + 1, length_k + 1 + len(w) + 1 > chunk_size; and a step that
\* appends a word to a non-empty accumulator leaves the running length
\* <= chunk_size.
C19_WordGreedy ==
    /\ [](pc = "done" =>
            \A k \in 1..(Len(chunks) - 1) :
                chunks[k].length + 1 + Len(FreshWords(k + 1)[1]) + 1 > chunk_size)
    /\ [][(pc = "loop" /\ pc' = "loop" /\ chunks' = chunks /\ current_chunk # <<>>)
            => (/\ current_chunk' = Append(current_chunk, words[idx])
                /\ current_length' <= chunk_size)]_vars

C19_Witness ==
    /\ pc = "done" /\ Len(chunks) >= 2 /\ chunk_size >= 4
    /\ chunks[1].word_count >= 2 /\ chunks[1].length <= chunk_size
    /\ chunks[1].length + 1 + Len(FreshWords(2)[1]) + 1 > chunk_size

C13_Isolated ==
    /\ [](pc = "done" => chunks = ChunkTextResult(text, chunk_size, overlap))
    /\ [](pc2 = "done" => chunks2 = ChunkTextResult(text2, chunk_size2, overlap2))
    /\ [][vars1' = vars1 \/ vars2' = vars2]_vars

C13_Witness ==
    /\ pc = "done" /\ pc2 = "done" /\ args # args2
    /\ Len(chunks) >= 2 /\ Len(chunks2) = 1 /\ chunks[2].word_count = 2
    /\ chunks2 = ChunkTextResult(text2, chunk_size2, overlap2)

\* C20: the copy in test_pdf_upload.py and the one in
\* test_pdf_upload_fixed.py, run on the same arguments, agree on the
\* accumulator, the running length and chunk_id after every word, and
\* return identical chunk sequences.
C20_CopiesAgree ==
    (args = args2 /\ pc = pc2 /\ idx = idx2) =>
        /\ words = words2
        /\ current_chunk = current_chunk2
        /\ current_length = current_length2
        /\ chunk_id = chunk_id2
        /\ chunks = chunks2

C20_Witness ==
    /\ args = args2 /\ pc = "done" /\ pc2 = "done"
    /\ overlap = 15 /\ Len(chunks) >= 3
    /\ chunks[3].word_count = 3
    /\ chunks = chunks2

\* C21: every chunk after the first holds at least one word that was not
\* carried over from the chunk before it, whatever chunk_size and overlap are
\* (an overlap seed longer than chunk_size included); the number of chunks
\* never exceeds the number of tokens of the text; every step of the loop
\* consumes exactly one token and the loop ends when all are consumed.
C21_Progress ==
    /\ [](\A k \in 2..Len(chunks) : chunks[k].word_count > CarriedInto(k))
    /\ [](Len(chunks) <= Len(Split(text)))
    /\ [][(pc = "loop" /\ pc' = "loop") => idx' = idx + 1]_vars
    /\ [](pc = "done" => idx = Len(Split(text)) + 1)

C21_Witness ==
    /\ pc = "done" /\ overlap = 20 /\ chunk_size >= 1
    /\ Len(chunks) >= 3 /\ Len(chunks) = Len(Split(text))
    /\ CarriedInto(3) = 2 /\ chunks[3].word_count = 3
    /\ chunks[3].length > chunk_size

\* ---- vocabulary of the claims about upload_pdf
\* the extension after the last '.' of a name is 'pdf', in any case
PdfExtension(name) ==
    \E i \in 1..Len(name) :
        /\ name[i] = "."
        /\ \A j \in (i + 1)..Len(name) : name[j] # "."
        /\ Len(name) = i + 3
        /\ name[i + 1] \in {"p", "P"}
        /\ name[i + 2] \in {"d", "D"}
        /\ name[i + 3] \in {"f", "F"}

\* the error of the first check a request fails, in the order of the claim
FirstFailedCheck(req) ==
    IF ~req.has_pdf THEN "No file uploaded"
    ELSE IF req.filename = <<>> THEN "No file selected"
    ELSE IF req.file_size > 16 * 1024 * 1024 THEN "File too large"
    ELSE IF ~PdfExtension(req.filename) THEN "Invalid file type"
    ELSE "none"

Responded == upload_pc = "responded"

\* C22: process_user_pdf is called only for a request that passes the four
\* checks (file part, file name, size <= 16 MiB, extension 'pdf' in any
\* case); a request that fails one is answered 400 with the error of the
\* first check it fails, and for it no temporary file is created and
\* process_user_pdf is not called.
C22_Validation ==
    /\ (process_calls > 0 \/ temp_file # "none") => FirstFailedCheck(request) = "none"
    /\ (Responded /\ FirstFailedCheck(request) # "none")
            => /\ response.status = 400
               /\ response.error = FirstFailedCheck(request)
    /\ (Responded /\ response.status = 400)
            => response.error = FirstFailedCheck(request)

C22_Witness ==
    /\ Responded /\ process_calls = 1
    /\ request.file_size = 16 * 1024 * 1024
    /\ request.filename = <<"p", ".", "p", "D", "f">>
    /\ response.status = 200

\* C23: whenever a temporary file was created for a request, it no longer
\* exists when the response is returned.
C23_TempFileRemoved == Responded => temp_file # "exists"

Returned == process_pc = "returned"

\* the four fields of chunk i as the claim expects them in the batch
ExpectedObject(i) ==
    [text |-> pdf_chunks[i].text, chunk_id |-> i - 1,
     length |-> Len(pdf_chunks[i].text),
     word_count |-> Len(SplitKeepEmpty(pdf_chunks[i].text))]

\* C25: process_user_pdf never raises; when the collection lookup, the
\* extraction or the batch fails it returns success False with the message
\* of the error; when nothing fails it returns success True with
\* total_chunks the number of chunks chunk_text makes of the extracted text,
\* 0 for a PDF without text.
C25_NeverRaises ==
    /\ process_pc # "raised"
    /\ (Returned /\ caught # "")
          => (~process_result.success /\ process_result.error = caught)
    /\ (Returned /\ caught = "")
          => /\ process_result.success
             /\ process_result.total_chunks =
                    Len(ChunkTextResult(extracted_text, DefaultChunkSize, DefaultOverlap))
             /\ (extracted_text = <<>> => process_result.total_chunks = 0)

C25_Witness ==
    /\ Returned /\ caught = "" /\ process_result.success
    /\ process_result.total_chunks >= 12
    /\ process_result.total_chunks = Len(pdf_chunks)

\* C26: in a successful result successful_uploads + failed_uploads =
\* total_chunks, successful_uploads >= 0, and successful_uploads is the
\* number of chunks that were submitted to the batch and did not fail.
C26_Counts ==
    (Returned /\ process_result.success) =>
        /\ process_result.successful_uploads + process_result.failed_uploads
              = process_result.total_chunks
        /\ process_result.successful_uploads >= 0
        /\ process_result.successful_uploads = Len(batch_objects) - failed_count

\* C27: the objects submitted are, in order, the first chunks of the chunk
\* sequence, each with the chunk's text, chunk_id, length and word_count;
\* every chunk is submitted when the error count stays <= 10, and no chunk
\* is submitted once the error count read after a submission is above 10.
C27_PrefixSubmission ==
    /\ [](/\ Len(batch_objects) <= Len(pdf_chunks)
          /\ \A i \in 1..Len(batch_objects) : batch_objects[i] = ExpectedObject(i))
    /\ []((process_pc \in {"exit", "returned"} /\ caught = "" /\ number_errors <= 10)
            => Len(batch_objects) = Len(pdf_chunks))
    /\ [][Len(batch_objects') > Len(batch_objects)
            => (number_errors <= 10 /\ Len(batch_objects') = Len(batch_objects) + 1)]_vars

C27_Witness ==
    /\ process_pc = "exit" /\ number_errors = 11
    /\ Len(batch_objects) = 11 /\ Len(pdf_chunks) >= 12
    /\ batch_objects[11].chunk_id = 10
    /\ batch_objects[11].word_count = 21

\* ---- vocabulary of the claims about the connection modules
ContextStep == last_call'.name \in {"enter", "exit"} /\ last_call' # last_call

\* C28: is_connected() of the WeaviateClient is true exactly when the most
\* recent completed call among connect_to_cloud and disconnect is a
\* connect_to_cloud that succeeded; a connect_to_cloud that fails raises
\* ConnectionError and changes nothing; after disconnect() has returned
\* is_connected() is false; get_client() returns the client when
\* is_connected() is true and raises ConnectionError otherwise.
C28_ConnectionState ==
    /\ [](is_connected(weaviate_client) <=> last_switch = "connect")
    /\ [](last_call = Call("disconnect", "returned", None)
            => ~is_connected(weaviate_client))
    /\ [](last_call = Call("connect_to_cloud", "ConnectionError", None)
            => (is_connected(weaviate_client) <=> last_switch = "connect"))
    /\ [](last_call.name = "get_client"
            => IF is_connected(weaviate_client)
                 THEN last_call = Call("get_client", "returned", weaviate_client.client)
                 ELSE last_call = Call("get_client", "ConnectionError", None))

\* C29: the connection weaviate_connection opened on entry is closed when
\* the with-block has been left, normally or by an exception of the body; an
\* entry that fails closes nothing and raises; entering and leaving change
\* neither the client nor the connected flag of the module-level
\* weaviate_client.
C29_ClosesWhatItOpens ==
    /\ [](last_call.name = "exit" => connections[temp_client.client] = "closed")
    /\ [][(last_call'.name = "enter" /\ last_call'.outcome = "ConnectionError"
              /\ last_call' # last_call)
            => connections' = connections]_vars
    /\ [][ContextStep => weaviate_client' = weaviate_client]_vars

\* C30: the client an operation of WeaviateOperations runs on is a
\* connection that is open, with the module-level weaviate_client reporting
\* is_connected() true; get_weaviate_client opens a connection only when
\* is_connected() is false.
C30_OpenConnection ==
    /\ []((last_call.name = "operation" /\ last_call.outcome = "ran")
            => /\ is_connected(weaviate_client)
               /\ connections[last_call.value] = "open")
    /\ [][(last_call'.name = "get_weaviate_client" /\ Len(connections') > Len(connections))
            => ~is_connected(weaviate_client)]_vars

====
